---- MODULE Spec2Model ----
(***************************************************************************)
(* Model of src/API.py: the LINE membership-card service.                  *)
(*                                                                         *)
(* State: the `members` table (a set of rows, with the NOT NULL and UNIQUE *)
(* constraints of init_db enforced by the Db* operators), the response of  *)
(* the request that completed last, and, for register requests that are    *)
(* served concurrently, each worker's position between SQL statements.     *)
(*                                                                         *)
(* Text values are sequences of one-character strings; None is Python's    *)
(* None / SQL NULL.                                                        *)
(***************************************************************************)
EXTENDS Integers, Sequences, FiniteSets, TLC

VARIABLES members, resp, pc, req, cand

vars == <<members, resp, pc, req, cand>>

-----------------------------------------------------------------------------
(* Bounds *)

\* random.randint(1, 9999) is scaled down to 1..RandMax so that the table can
\* fill up and collisions of two draws happen.
RandMax == 2

Users == {"U1", "U2"}
Procs == {1, 2}

-----------------------------------------------------------------------------
(* Text values *)

None == <<"NULL">>
NoUser == "None"

DigitChars == <<"0", "1", "2", "3", "4", "5", "6", "7", "8", "9">>

IsDigitChar(c) == \E i \in 1..Len(DigitChars) : DigitChars[i] = c

\* Python truthiness of an optional string: None and "" are falsy.
Truthy(s) == s # None /\ s # <<>>

Contains(s, c) == \E i \in 1..Len(s) : s[i] = c

\* str.isdigit(): non-empty and every character a digit.
isdigit(s) == Len(s) > 0 /\ \A i \in 1..Len(s) : IsDigitChar(s[i])

RECURSIVE Decimal(_)
Decimal(n) ==
    IF n < 10 THEN <<DigitChars[n + 1]>>
    ELSE Decimal(n \div 10) \o <<DigitChars[(n % 10) + 1]>>

RECURSIVE ZeroPad(_, _)
ZeroPad(s, w) == IF Len(s) >= w THEN s ELSE ZeroPad(<<"0">> \o s, w)

RandMin == 1
PadWidth == 4

\* Variant of FormatMemberNumber without zero padding (f"M{n}").
UnpaddedMemberNumber(n) == <<"M">> \o Decimal(n)

\* Variant of FormatMemberNumber padding to one digit less (f"M{n:03d}").
ShortPadMemberNumber(n) == <<"M">> \o ZeroPad(Decimal(n), PadWidth - 1)

\* f"M{n:04d}"
FormatMemberNumber(n) == <<"M">> \o ZeroPad(Decimal(n), PadWidth)

-----------------------------------------------------------------------------
(* The members table *)

Row(u, name, region, email, phone, mn) ==
    [line_user_id |-> u, name |-> name, region |-> region, email |-> email,
     phone_number |-> phone, member_number |-> mn]

\* Variant of SelectByUser without its WHERE clause.
SelectAnyUser(tbl, u) == tbl

\* SELECT ... FROM members WHERE line_user_id = ?
SelectByUser(tbl, u) == {r \in tbl : r.line_user_id = u}

\* SELECT * FROM members WHERE member_number = ?
SelectByNumber(tbl, mn) == {r \in tbl : r.member_number = mn}

\* name/region/line_user_id/member_number NOT NULL
NotNullOk(r) ==
    /\ r.line_user_id # NoUser
    /\ r.name # None
    /\ r.region # None
    /\ r.member_number # None

\* line_user_id UNIQUE and member_number UNIQUE over a whole table
UniqueOk(tbl) ==
    \A r1, r2 \in tbl :
        (r1.line_user_id = r2.line_user_id \/ r1.member_number = r2.member_number)
            => r1 = r2

\* Variant of DbInsert for a table whose line_user_id is not UNIQUE.
DbInsertNoUserKey(tbl, r) ==
    IF NotNullOk(r) /\ SelectByNumber(tbl, r.member_number) = {}
    THEN [ok |-> TRUE, tbl |-> tbl \cup {r}]
    ELSE [ok |-> FALSE, tbl |-> tbl]

\* Variant of DbInsert that on a conflict replaces the conflicting rows
\* (INSERT OR REPLACE) and still reports the failure.
DbInsertOrReplace(tbl, r) ==
    IF NotNullOk(r) /\ UniqueOk(tbl \cup {r}) /\ r \notin tbl
    THEN [ok |-> TRUE, tbl |-> tbl \cup {r}]
    ELSE [ok |-> FALSE,
          tbl |-> {q \in tbl : /\ q.line_user_id # r.line_user_id
                               /\ q.member_number # r.member_number} \cup {r}]

\* INSERT INTO members ... ; commit.  A constraint violation raises
\* sqlite3.IntegrityError and the handler rolls back: the table is unchanged.
DbInsert(tbl, r) ==
    IF NotNullOk(r) /\ UniqueOk(tbl \cup {r}) /\ r \notin tbl
    THEN [ok |-> TRUE, tbl |-> tbl \cup {r}]
    ELSE [ok |-> FALSE, tbl |-> tbl]

\* Variant of DbUpdateMember whose SET list lacks name.
DbUpdateMemberKeepName(tbl, u, f) ==
    {IF r.line_user_id = u
        THEN [r EXCEPT !.region = f.region, !.email = f.email,
                       !.phone_number = f.phone_number]
        ELSE r : r \in tbl}

\* Variant of DbUpdateMember that also writes a new member_number.
DbUpdateMemberRenumber(tbl, u, f) ==
    {IF r.line_user_id = u
        THEN [r EXCEPT !.name = f.name, !.region = f.region, !.email = f.email,
                       !.phone_number = f.phone_number,
                       !.member_number = <<"M">> \o r.member_number]
        ELSE r : r \in tbl}

\* UPDATE members SET name, region, email, phone_number WHERE line_user_id = ?
DbUpdateMember(tbl, u, f) ==
    {IF r.line_user_id = u
        THEN [r EXCEPT !.name = f.name, !.region = f.region, !.email = f.email,
                       !.phone_number = f.phone_number]
        ELSE r : r \in tbl}

\* Variant of DbUpdateProfile for a table whose member_number is not UNIQUE.
DbUpdateProfileNoNumberKey(tbl, u, email, mn) ==
    LET new == {IF r.line_user_id = u
                   THEN [r EXCEPT !.email = email, !.member_number = mn]
                   ELSE r : r \in tbl}
    IN  IF (\A r \in new : NotNullOk(r))
        THEN [ok |-> TRUE, tbl |-> new]
        ELSE [ok |-> FALSE, tbl |-> tbl]

\* Variant of DbUpdateProfile that inserts a row when none matches (an upsert).
DbUpdateProfileUpsert(tbl, u, email, mn) ==
    LET upd == {IF r.line_user_id = u
                   THEN [r EXCEPT !.email = email, !.member_number = mn]
                   ELSE r : r \in tbl}
        new == IF \E r \in tbl : r.line_user_id = u
               THEN upd
               ELSE tbl \cup {Row(u, <<>>, <<>>, email, None, mn)}
    IN  IF (\A r \in new : NotNullOk(r)) /\ UniqueOk(new)
           /\ Cardinality(upd) = Cardinality(tbl)
        THEN [ok |-> TRUE, tbl |-> new]
        ELSE [ok |-> FALSE, tbl |-> tbl]

\* UPDATE members SET email = ?, member_number = ? WHERE line_user_id = ?
\* No matching row: zero rows updated, no error.
DbUpdateProfile(tbl, u, email, mn) ==
    LET new == {IF r.line_user_id = u
                   THEN [r EXCEPT !.email = email, !.member_number = mn]
                   ELSE r : r \in tbl}
    IN  IF (\A r \in new : NotNullOk(r)) /\ UniqueOk(new)
           /\ Cardinality(new) = Cardinality(tbl)
        THEN [ok |-> TRUE, tbl |-> new]
        ELSE [ok |-> FALSE, tbl |-> tbl]

-----------------------------------------------------------------------------
(* Request inputs *)

Taro == <<"T", "a", "r", "o">>
Hana == <<"H", "a", "n", "a">>
Tokyo == <<"T", "o", "k", "y", "o">>
Osaka == <<"O", "s", "a", "k", "a">>

NotAnEmail == <<"a", "b">>
NoTldEmail == <<"a", "@", "b">>
GoodEmail == <<"a", "@", "b", ".", "c">>

GoodPhone == <<"0", "9", "0">>
BadPhone == <<"0", "9", "a">>

Form(name, region, email, phone) ==
    [name |-> name, region |-> region, email |-> email, phone_number |-> phone]

\* request.form of POST /register.  name = None stands for a form without the
\* "name" key (request.form["name"] raises), the others for submitted values.
Forms ==
    { Form(Taro, Tokyo, None, None),
      Form(Hana, Osaka, GoodEmail, GoodPhone),
      Form(None, Tokyo, None, None),
      Form(<<>>, Tokyo, GoodEmail, GoodPhone),
      Form(Taro, <<>>, None, None),
      Form(Taro, Tokyo, NotAnEmail, None),
      Form(Hana, Osaka, NoTldEmail, GoodPhone),
      Form(Taro, Tokyo, GoodEmail, BadPhone),
      Form(<<>>, Tokyo, NotAnEmail, BadPhone),
      Form(Taro, Tokyo, NotAnEmail, BadPhone) }

\* The forms of the register requests that are served concurrently.
ConcForms ==
    { Form(Taro, Tokyo, None, None),
      Form(Hana, Osaka, GoodEmail, GoodPhone),
      Form(<<>>, Tokyo, GoodEmail, GoodPhone),
      Form(None, Tokyo, None, None),
      Form(Taro, Tokyo, NotAnEmail, None) }

\* email values of a POST /update_profile form: one its check refuses, one it
\* accepts.
UpdateEmails == {NotAnEmail, GoodEmail}

\* member_number values a POST /update_profile form can carry: absent, empty,
\* or a number of the generator's format.
MemberNumberInputs ==
    {None, <<>>} \cup {FormatMemberNumber(n) : n \in RandMin..RandMax}

\* The update_profile POSTs that are interleaved with concurrent registers.
ConcEmails == {GoodEmail}
ConcNumbers == {None, FormatMemberNumber(RandMin), FormatMemberNumber(RandMax)}

\* Text of a bot message: "登録", "会員証", anything else.
TextRegister == "register"
TextCard == "card"
TextOther == "other"
Texts == {TextRegister, TextCard, TextOther}

-----------------------------------------------------------------------------
(* Responses *)

Response(op, u, code, view, body) ==
    [op |-> op, u |-> u, code |-> code, view |-> view, body |-> body]

NoResponse == Response("none", NoUser, 0, "none", <<>>)

NoRequest == [u |-> NoUser, form |-> Form(None, None, None, None)]

-----------------------------------------------------------------------------
(* POST /register *)

\* The validation of the new-member branch of register.
ValidateNew(f) ==
    IF Truthy(f.email) /\ ~Contains(f.email, "@") THEN "email"
    ELSE IF Truthy(f.phone_number) /\ ~isdigit(f.phone_number) THEN "phone"
    ELSE "ok"

\* register up to the branch it takes after its SELECT by line_user_id:
\* "keyerror" (a missing form key, caught by `except Exception`), "required",
\* "update" (the row exists), "email"/"phone" (new-member validation) or
\* "generate".
RegisterBranch(tbl, u, f) ==
    IF f.name = None \/ f.region = None THEN "keyerror"
    ELSE IF ~Truthy(f.name) \/ ~Truthy(f.region) THEN "required"
    ELSE IF SelectByUser(tbl, u) # {} THEN "update"
    ELSE IF ValidateNew(f) # "ok" THEN ValidateNew(f)
    ELSE "generate"

\* The except clauses of register: ValueError gives 400 with the message of
\* the check that raised; any other exception gives 500.
RegisterError(u, branch) ==
    IF branch = "keyerror"
    THEN Response("register", u, 500, "error_failed_keyerror", <<>>)
    ELSE Response("register", u, 400, "error_" \o branch, <<>>)

RegisterUpdated(u) == Response("register", u, 200, "updated", <<>>)
RegisterCreated(u) == Response("register", u, 200, "created", <<>>)
RegisterFailed(u) == Response("register", u, 500, "error_failed_integrity", <<>>)

\* One pass of the loop of generate_member_number: the draw n is returned
\* when no row holds its number.
DrawAccepted(tbl, n) == SelectByNumber(tbl, FormatMemberNumber(n)) = {}

\* The whole handler, served without another request in between.  The loop of
\* generate_member_number returns only an unused draw; while every draw is in
\* use the handler does not return.
Register(u, f) ==
    LET branch == RegisterBranch(members, u, f) IN
    /\ \A p \in Procs : pc[p] = "idle"
    /\ IF branch = "update"
       THEN /\ members' = DbUpdateMember(members, u, f)
            /\ resp' = RegisterUpdated(u)
       ELSE IF branch = "generate"
       THEN \E n \in RandMin..RandMax :
              /\ DrawAccepted(members, n)
              /\ LET r == DbInsert(members,
                            Row(u, f.name, f.region, f.email, f.phone_number,
                                FormatMemberNumber(n)))
                 IN  /\ members' = r.tbl
                     /\ resp' = IF r.ok THEN RegisterCreated(u) ELSE RegisterFailed(u)
       ELSE /\ members' = members
            /\ resp' = RegisterError(u, branch)
    /\ UNCHANGED <<pc, req, cand>>

-----------------------------------------------------------------------------
(* POST /register served by concurrent workers: one step per SQL statement *)

\* Form parsing, the required-field check, the SELECT by line_user_id and, on
\* the new-member branch, the email and phone checks.
RegBegin(p, u, f) ==
    LET branch == RegisterBranch(members, u, f) IN
    /\ pc[p] = "idle"
    /\ IF branch \in {"update", "generate"}
       THEN /\ pc' = [pc EXCEPT ![p] = branch]
            /\ req' = [req EXCEPT ![p] = [u |-> u, form |-> f]]
            /\ UNCHANGED resp
       ELSE /\ resp' = RegisterError(u, branch)
            /\ UNCHANGED <<pc, req>>
    /\ UNCHANGED <<members, cand>>

\* The UPDATE of the existing-member branch, and its commit.
RegUpdate(p) ==
    /\ pc[p] = "update"
    /\ members' = DbUpdateMember(members, req[p].u, req[p].form)
    /\ resp' = RegisterUpdated(req[p].u)
    /\ pc' = [pc EXCEPT ![p] = "idle"]
    /\ req' = [req EXCEPT ![p] = NoRequest]
    /\ UNCHANGED cand

\* One pass of the loop of generate_member_number with the draw n:
\* member_number is assigned, then its SELECT decides between returning it and
\* another pass.
RegDraw(p, n) ==
    /\ pc[p] = "generate"
    /\ cand' = [cand EXCEPT ![p] = FormatMemberNumber(n)]
    /\ pc' = IF DrawAccepted(members, n) THEN [pc EXCEPT ![p] = "insert"] ELSE pc
    /\ UNCHANGED <<members, resp, req>>

\* One pass of the loop of generate_member_number: a draw and its SELECT.
RegGenerate(p) == \E n \in RandMin..RandMax : RegDraw(p, n)

\* The INSERT with the generated number, and its commit or rollback.
RegInsert(p) ==
    LET f == req[p].form
        r == DbInsert(members,
                 Row(req[p].u, f.name, f.region, f.email, f.phone_number, cand[p]))
    IN  /\ pc[p] = "insert"
        /\ members' = r.tbl
        /\ resp' = IF r.ok THEN RegisterCreated(req[p].u) ELSE RegisterFailed(req[p].u)
        /\ pc' = [pc EXCEPT ![p] = "idle"]
        /\ req' = [req EXCEPT ![p] = NoRequest]
        /\ cand' = [cand EXCEPT ![p] = None]

-----------------------------------------------------------------------------
(* The other routes and the bot *)

\* cursor.fetchone() of a result that is not empty
fetchone(rows) == CHOOSE r \in rows : TRUE

\* POST /update_profile
UpdateProfilePost(u, email, mn) ==
    /\ IF u = NoUser
       THEN /\ resp' = Response("update_profile", u, 400, "error_no_user", <<>>)
            /\ members' = members
       ELSE IF Truthy(email) /\ ~Contains(email, "@")
       THEN /\ resp' = Response("update_profile", u, 302, "redirect_update_profile", <<>>)
            /\ members' = members
       ELSE LET r == DbUpdateProfile(members, u, email, mn)
            IN  /\ members' = r.tbl
                /\ resp' = IF r.ok
                           THEN Response("update_profile", u, 200, "update_complete", <<>>)
                           ELSE Response("update_profile", u, 500, "error_failed", <<>>)
    /\ UNCHANGED <<pc, req, cand>>

\* GET /update_profile
UpdateProfileGet(u) ==
    LET rows == SelectByUser(members, u) IN
    /\ resp' = IF u = NoUser
               THEN Response("update_profile_form", u, 400, "error_no_user", <<>>)
               ELSE IF rows # {}
               THEN Response("update_profile_form", u, 200, "update_profile",
                             <<fetchone(rows).email, fetchone(rows).member_number>>)
               ELSE Response("update_profile_form", u, 302, "redirect_register_form", <<>>)
    /\ UNCHANGED <<members, pc, req, cand>>

\* GET /show_member_card
ShowMemberCard(u) ==
    LET rows == SelectByUser(members, u) IN
    /\ resp' = IF rows # {}
               THEN Response("show_member_card", u, 200, "card",
                             <<fetchone(rows).name, fetchone(rows).region,
                               fetchone(rows).member_number>>)
               ELSE Response("show_member_card", u, 302, "redirect_register_form", <<>>)
    /\ UNCHANGED <<members, pc, req, cand>>

\* The bot's text-message handler; the response is the reply it sends.
HandleMessage(u, text) ==
    LET rows == SelectByUser(members, u) IN
    /\ resp' = IF text = TextRegister
               THEN Response("handle_message", u, 200, "reply_register_link", <<>>)
               ELSE IF text = TextCard
               THEN IF rows # {}
                    THEN Response("handle_message", u, 200, "card",
                                  <<fetchone(rows).name, fetchone(rows).region,
                                    fetchone(rows).member_number>>)
                    ELSE Response("handle_message", u, 200, "reply_please_register", <<>>)
               ELSE Response("handle_message", u, 200, "reply_help", <<>>)
    /\ UNCHANGED <<members, pc, req, cand>>

\* GET /admin/members; the rendered listing is not kept in the state.
ListMembers ==
    /\ resp' = Response("list_members", NoUser, 200, "member_list", <<>>)
    /\ UNCHANGED <<members, pc, req, cand>>

-----------------------------------------------------------------------------
(* Specifications *)

\* init_db: the table exists and is empty; no request has been served.
Init ==
    /\ members = {}
    /\ resp = NoResponse
    /\ pc = [p \in Procs |-> "idle"]
    /\ req = [p \in Procs |-> NoRequest]
    /\ cand = [p \in Procs |-> None]

\* Requests served one at a time.
Next ==
    \/ \E u \in Users, f \in Forms : Register(u, f)
    \/ \E u \in Users, e \in UpdateEmails, mn \in MemberNumberInputs :
          UpdateProfilePost(u, e, mn)
    \/ UpdateProfilePost(NoUser, GoodEmail, FormatMemberNumber(RandMin))
    \/ \E u \in Users \cup {NoUser} : UpdateProfileGet(u)
    \/ \E u \in Users \cup {NoUser} : ShowMemberCard(u)
    \/ \E u \in Users, t \in Texts : HandleMessage(u, t)
    \/ ListMembers

Spec == Init /\ [][Next]_vars

\* Register requests served by concurrent workers, interleaved at their SQL
\* statements with each other and with update_profile POSTs.
NextConc ==
    \/ \E p \in Procs, u \in Users, f \in ConcForms : RegBegin(p, u, f)
    \/ \E p \in Procs : RegUpdate(p)
    \/ \E p \in Procs : RegGenerate(p)
    \/ \E p \in Procs : RegInsert(p)
    \/ \E u \in Users, e \in ConcEmails, mn \in ConcNumbers :
          UpdateProfilePost(u, e, mn)

SpecConc == Init /\ [][NextConc]_vars

\* SpecConc with every worker scheduled (a request in flight takes its next
\* step) and fair draws: a number that random.randint keeps being able to
\* return is returned.
SpecFair ==
    /\ SpecConc
    /\ \A p \in Procs :
          /\ WF_vars(RegUpdate(p))
          /\ WF_vars(RegInsert(p))
          /\ \A n \in RandMin..RandMax : SF_vars(RegDraw(p, n))

-----------------------------------------------------------------------------
(* Vocabulary of the properties *)

HasRow(tbl, u) == \E r \in tbl : r.line_user_id = u

\* 'M' followed by exactly 4 digits
IsMemberNumberFormat(s) ==
    /\ Len(s) = 5
    /\ s[1] = "M"
    /\ \A i \in 2..5 : IsDigitChar(s[i])

\* M%04d of a number below 10000, digit by digit
MPlus4Digits(n) ==
    <<"M", DigitChars[((n \div 1000) % 10) + 1], DigitChars[((n \div 100) % 10) + 1],
      DigitChars[((n \div 10) % 10) + 1], DigitChars[(n % 10) + 1]>>

\* ^[^@]+@[^@]+\.[^@]+$
EmailMatches(s) ==
    \E i \in 2..Len(s) :
        /\ s[i] = "@"
        /\ \A k \in 1..Len(s) : s[k] = "@" => k = i
        /\ \E j \in (i + 2)..(Len(s) - 1) : s[j] = "."

\* The numeric suffixes of the rows whose member_number has the M#### format
DigitValue(c) == CHOOSE d \in 0..9 : DigitChars[d + 1] = c

RECURSIVE ParseDecimal(_)
ParseDecimal(s) ==
    IF s = <<>> THEN 0
    ELSE 10 * ParseDecimal(SubSeq(s, 1, Len(s) - 1)) + DigitValue(s[Len(s)])

Suffixes(tbl) ==
    {ParseDecimal(Tail(r.member_number)) :
        r \in {q \in tbl : IsMemberNumberFormat(q.member_number)}}

MaxSuffix(tbl) ==
    IF Suffixes(tbl) = {} THEN 0
    ELSE CHOOSE n \in Suffixes(tbl) : \A m \in Suffixes(tbl) : m <= n

\* Every row of tbl is still there with the same member_number
NumbersKept(tbl, tbl2) ==
    \A r \in tbl : \E r2 \in tbl2 :
        r2.line_user_id = r.line_user_id /\ r2.member_number = r.member_number

-----------------------------------------------------------------------------
(* Properties *)

\* C1: a register request with non-empty name and region for an external_id
\* that already has a row adds no row, keeps that row's member_number, sets its
\* name, region, email and phone_number to the submitted values and leaves
\* every other row as it was.
C1_ReRegisterUpdatesInPlace ==
    [][\A u \in Users, f \in Forms :
          (/\ HasRow(members, u) /\ Truthy(f.name) /\ Truthy(f.region)
           /\ resp'.op = "register" /\ resp'.u = u
           /\ Register(u, f))
          => /\ Cardinality(members') = Cardinality(members)
             /\ \A r \in members :
                  IF r.line_user_id = u
                  THEN Row(u, f.name, f.region, f.email, f.phone_number,
                           r.member_number) \in members'
                  ELSE r \in members']_vars

\* A second row exists and a re-registration has overwritten a row's fields.
C1_Witness ==
    /\ Cardinality(members) = 2
    /\ resp.op = "register" /\ resp.view = "updated"
    /\ \E r \in members :
         /\ r.line_user_id = resp.u
         /\ r.name = Hana /\ r.email = GoodEmail /\ r.phone_number = GoodPhone

\* C2: a successful register request with valid fields for an external_id
\* without a row adds exactly one row, for that external_id, whose
\* member_number is 'M' plus exactly 4 digits and was held by no row before.
C2_NewMemberFreshNumber ==
    [][\A u \in Users, f \in Forms :
          (/\ ~HasRow(members, u)
           /\ Truthy(f.name) /\ Truthy(f.region)
           /\ (f.email = None \/ EmailMatches(f.email))
           /\ (f.phone_number = None \/ isdigit(f.phone_number))
           /\ resp'.op = "register" /\ resp'.u = u /\ resp'.code = 200
           /\ Register(u, f))
          => \E r \in members' :
                /\ r \notin members
                /\ members' = members \cup {r}
                /\ r.line_user_id = u
                /\ IsMemberNumberFormat(r.member_number)
                /\ \A q \in members : q.member_number # r.member_number]_vars

\* A second member has been created next to an existing one.
C2_Witness ==
    /\ Cardinality(members) = 2
    /\ resp.op = "register" /\ resp.view = "created"
    /\ \E r \in members :
         r.line_user_id = resp.u /\ IsMemberNumberFormat(r.member_number)

\* C3: in every state reached by interleaved register and update_profile
\* requests, no two rows have the same member_number.
C3_MemberNumbersUnique ==
    \A r1, r2 \in members : r1.member_number = r2.member_number => r1 = r2

\* Two rows exist and an update_profile POST has just been refused by the store.
C3_Witness ==
    /\ Cardinality(members) = 2
    /\ resp.op = "update_profile" /\ resp.code = 500
    /\ HasRow(members, resp.u)

\* C4 as claimed: no request ever changes the member_number of a row.
C4_NumberNeverReassigned ==
    [][NumbersKept(members, members')]_vars

\* C4 as amended: register never changes the member_number of a row; the only
\* request that does is a successful update_profile POST, for its own row.
C4_OnlyUpdateProfileReassigns ==
    [][\A r \in members :
          \/ \E r2 \in members' :
                r2.line_user_id = r.line_user_id /\ r2.member_number = r.member_number
          \/ /\ resp'.op = "update_profile" /\ resp'.view = "update_complete"
             /\ resp'.u = r.line_user_id]_vars

\* A re-registration has acted on a row whose number update_profile had
\* replaced by the empty string: the row keeps what it had.
C4_Witness ==
    /\ resp.op = "register" /\ resp.view = "updated"
    /\ \E r \in members : r.line_user_id = resp.u /\ r.member_number = <<>>

\* C5: a register request whose email is provided and does not match the
\* pattern is rejected with 400 and writes nothing, registered or not.
C5_BadEmailRejected ==
    [][\A u \in Users, f \in Forms :
          (/\ f.email # None /\ ~EmailMatches(f.email)
           /\ resp'.op = "register" /\ resp'.u = u
           /\ Register(u, f))
          => resp'.code = 400 /\ members' = members]_vars

\* C6: a register request that ends in an error response (400 or 500) leaves
\* the table exactly as it was.
C6_ErrorLeavesTableUnchanged ==
    [][\A p \in Procs :
          (/\ resp'.op = "register" /\ resp'.code \in {400, 500}
           /\ \/ RegInsert(p)
              \/ RegUpdate(p)
              \/ \E u \in Users, f \in ConcForms : RegBegin(p, u, f))
          => members' = members]_vars

\* An INSERT has failed on a number another row holds: the request's user has
\* no row, the other row is there.
C6_Witness ==
    /\ resp.op = "register" /\ resp.view = "error_failed_integrity"
    /\ ~HasRow(members, resp.u)
    /\ members # {}

\* C7 as claimed: a new member's number is M plus the 4 zero-padded digits of
\* 1 + the largest existing suffix (M0001 in an empty store, then M0002).
C7_SequentialNumbers ==
    [][\A u \in Users, f \in Forms :
          (/\ ~HasRow(members, u)
           /\ resp'.op = "register" /\ resp'.u = u /\ resp'.view = "created"
           /\ Register(u, f))
          => \E r \in members' :
                /\ r.line_user_id = u
                /\ r.member_number = MPlus4Digits(1 + MaxSuffix(members))]_vars

\* C7 as amended: a new member's number is M plus the 4 zero-padded digits of
\* some number of the generator's range that no existing row holds; it need
\* not be 1 + the largest existing suffix.
C7_RandomUnusedNumber ==
    [][\A u \in Users, f \in Forms :
          (/\ ~HasRow(members, u)
           /\ resp'.op = "register" /\ resp'.u = u /\ resp'.view = "created"
           /\ Register(u, f))
          => \E r \in members', n \in RandMin..RandMax :
                /\ r.line_user_id = u
                /\ r.member_number = MPlus4Digits(n)
                /\ \A q \in members : q.member_number # MPlus4Digits(n)]_vars

\* The first registration into an empty store was given M0002.
C7_Witness ==
    /\ resp.op = "register" /\ resp.view = "created"
    /\ \E r \in members : members = {r} /\ r.member_number = MPlus4Digits(2)

\* C8: a card request (the route or the bot message) for an external_id
\* without a row returns the registration prompt, never a card; with a row it
\* returns a card showing that row's name, region and member_number.
C8_CardOnlyForMembers ==
    [][\A u \in Users \cup {NoUser} :
          (ShowMemberCard(u) \/ (u \in Users /\ HandleMessage(u, TextCard)))
          => IF \E r \in members : r.line_user_id = u
             THEN /\ resp'.view = "card"
                  /\ \E r \in members :
                       /\ r.line_user_id = u
                       /\ resp'.body = <<r.name, r.region, r.member_number>>
             ELSE /\ resp'.view \in {"redirect_register_form", "reply_please_register"}
                  /\ resp'.body = <<>>]_vars

\* An unregistered user asked for a card while another user is registered.
C8_Witness ==
    /\ resp.op = "show_member_card" /\ resp.view = "redirect_register_form"
    /\ resp.u \in Users
    /\ members # {}

\* C9: an update_profile POST for an external_id without a row fails with a
\* not-found outcome and leaves the store unchanged (stated for the requests
\* whose email passes the handler's own check, so that no validation error
\* comes first).
C9_UpdateMissingIsNotFound ==
    [][\A u \in Users, e \in UpdateEmails, mn \in MemberNumberInputs :
          (/\ ~HasRow(members, u)
           /\ EmailMatches(e)
           /\ resp'.op = "update_profile" /\ resp'.u = u
           /\ UpdateProfilePost(u, e, mn))
          => /\ resp'.code = 404 \/ resp'.view = "redirect_register_form"
             /\ members' = members]_vars

\* C10: each external_id has at most one row, also when two register
\* requests for it both ran their existence check before either inserted.
C10_OneRowPerUser ==
    \A r1, r2 \in members : r1.line_user_id = r2.line_user_id => r1 = r2

\* Two register requests for one new user raced: one inserted, the INSERT
\* of the other was refused.
C10_Witness ==
    /\ resp.op = "register" /\ resp.view = "error_failed_integrity"
    /\ HasRow(members, resp.u)

\* The row a register request of worker p writes: its user and form values.
HoldsFormOf(r, p) ==
    /\ r.line_user_id = req[p].u
    /\ r.name = req[p].form.name
    /\ r.region = req[p].form.region
    /\ r.email = req[p].form.email
    /\ r.phone_number = req[p].form.phone_number

\* Worker p is about to write for a user that another register request,
\* overlapping p's, is registering or has registered since p's existence check.
SameUserRace(p) ==
    \/ \E q \in Procs \ {p} : pc[q] # "idle" /\ req[q].u = req[p].u
    \/ pc[p] = "insert" /\ HasRow(members, req[p].u)

\* C11: two concurrent valid register requests for the same external_id are
\* last-write-wins: the write of each succeeds (no error response) and leaves
\* the single row of that external_id holding the values it submitted.
C11_SameUserLastWriteWins ==
    [][\A p \in Procs :
          (/\ pc[p] \in {"update", "insert"}
           /\ SameUserRace(p)
           /\ RegUpdate(p) \/ RegInsert(p))
          => /\ resp'.op = "register" /\ resp'.code = 200
             /\ \A r \in members' :
                  r.line_user_id = req[p].u => HoldsFormOf(r, p)]_vars

\* C12: two concurrent valid register requests for different, unregistered
\* external_ids are independent: whatever the interleaving of their number
\* generation and INSERT, the INSERT of each succeeds and its row exists
\* afterwards, with a member_number no other row has.  Stated for the INSERT
\* of the request that writes second, right after the other request's INSERT.
C12_DifferentUsersIndependent ==
    [][\A p \in Procs :
          (/\ pc[p] = "insert"
           /\ ~HasRow(members, req[p].u)
           /\ \E u \in Users \ {req[p].u} : resp = RegisterCreated(u)
           /\ RegInsert(p))
          => /\ resp' = RegisterCreated(req[p].u)
             /\ \E r \in members' :
                  /\ HoldsFormOf(r, p)
                  /\ \A q \in members' : q.member_number = r.member_number => q = r]_vars

\* The rule of the claimed validation order that a form violates first:
\* "required", then "email", then "phone"; "ok" when it violates none.
FirstViolation(f) ==
    IF ~Truthy(f.name) \/ ~Truthy(f.region) THEN "required"
    ELSE IF f.email # None /\ ~EmailMatches(f.email) THEN "email"
    ELSE IF f.phone_number # None /\ ~isdigit(f.phone_number) THEN "phone"
    ELSE "ok"

\* C13: a register request that violates a validation rule is rejected with
\* 400 and the message of the first rule it violates, in the order required
\* fields, email format, phone digits, registered or not.
C13_FirstViolationWins ==
    [][\A u \in Users, f \in Forms :
          (/\ f.name # None /\ f.region # None
           /\ FirstViolation(f) # "ok"
           /\ resp'.op = "register" /\ resp'.u = u
           /\ Register(u, f))
          => /\ resp'.code = 400
             /\ resp'.view = "error_" \o FirstViolation(f)]_vars

\* C14 as claimed: every row's member_number is non-empty and of the form 'M'
\* plus 4 digits.
C14_NumbersWellFormed ==
    \A r \in members :
        r.member_number # <<>> /\ IsMemberNumberFormat(r.member_number)

\* C14 as amended: every row's member_number is non-null, and every number
\* that register issues is 'M' plus 4 zero-padded digits; a number of any
\* other form, the empty string included, enters the table only through a
\* successful update_profile POST for that row, which stores what was
\* submitted.
C14_OnlyUpdateProfileBreaksFormat ==
    [][\A r2 \in members' :
          /\ r2.member_number # None
          /\ \/ IsMemberNumberFormat(r2.member_number)
             \/ \E r \in members :
                   r.line_user_id = r2.line_user_id /\ r.member_number = r2.member_number
             \/ /\ resp'.op = "update_profile" /\ resp'.view = "update_complete"
                /\ resp'.u = r2.line_user_id]_vars

\* A registered row holds the empty member_number an update_profile POST gave
\* it, next to a row whose number register issued.
C14_Witness ==
    /\ resp.op = "update_profile" /\ resp.view = "update_complete"
    /\ \E r1, r2 \in members :
         /\ r1.line_user_id = resp.u /\ r1.member_number = <<>>
         /\ r2.line_user_id # resp.u /\ IsMemberNumberFormat(r2.member_number)

\* C15: every register request eventually returns: a worker in the loop of
\* generate_member_number eventually leaves it, whatever the table holds.
C15_GenerateTerminates ==
    \A p \in Procs : (pc[p] = "generate") ~> (pc[p] # "generate")

UserIds(tbl) == {r.line_user_id : r \in tbl}

ReadOnlyOps == {"show_member_card", "list_members", "handle_message",
                "update_profile_form"}

\* C16: the set of registered line_user_ids only grows, and only through
\* register: no step removes a user's row; a step that adds a row is a register
\* answered with the created view for that user, who had no row; update_profile
\* (GET or POST), show_member_card, list_members and the message handler keep
\* the set of users as it was, and the read-only ones leave the whole table
\* unchanged.
C16_RowsOnlyAddedByRegister ==
    [][/\ UserIds(members) \subseteq UserIds(members')
       /\ Cardinality(members') >= Cardinality(members)
       /\ \A u \in UserIds(members') \ UserIds(members) :
             /\ resp' = RegisterCreated(u)
             /\ UserIds(members') = UserIds(members) \cup {u}
       /\ resp'.op \in ReadOnlyOps \cup {"update_profile"}
             => UserIds(members') = UserIds(members)
       /\ resp'.op \in ReadOnlyOps => members' = members]_vars

\* An update_profile POST for a user with no row was answered as complete
\* while another user is registered.
C16_Witness ==
    /\ resp.op = "update_profile" /\ resp.view = "update_complete"
    /\ ~HasRow(members, resp.u)
    /\ members # {}

====
